---- MODULE Spec2Model ----
(***************************************************************************)
(* Model of scripts/generate-options.py: the size-aware chunker            *)
(* split_json_data, the Source Provider download_file, the two manifest    *)
(* emitters and the orchestration loop of main.                            *)
(*                                                                         *)
(* JSON values.  A JSON string is a sequence of characters; a character is *)
(* one of "a", "b" (one UTF-8 byte), "e_acute" (U+00E9, two UTF-8 bytes,   *)
(* left unescaped by ensure_ascii=False) and "quote" (U+0022, written as   *)
(* the two bytes \" by json.dumps).  A dataset is a record                 *)
(*   [kind |-> "list",   elems |-> sequence of strings]                    *)
(*   [kind |-> "dict",   elems |-> sequence of [key, value] pairs, in      *)
(*                                 insertion order, keys distinct]         *)
(*   [kind |-> "scalar", elems |-> <<string>>]                             *)
(*   [kind |-> "None",   elems |-> <<>>]        (Python None)              *)
(* A chunk is the sequence of the elements it holds; for a scalar the one  *)
(* chunk is the value itself.                                              *)
(***************************************************************************)
EXTENDS Integers, Sequences, FiniteSets, TLC

\* ---------------------------------------------------------------- bounds
MaxLen == 3
MaxBudget == 30
NumFiles == 2

\* ------------------------------------------------------------- constants
\* FILES (typename of each entry: filename.replace('.json', '')).  The list
\* is in ascending string order, so sorted(file_counts.items()) enumerates
\* the recorded typenames in FILES order.
AllFiles ==
  << "agents", "base_weapons", "collectibles", "collections", "crates",
     "graffiti", "highlights", "keychains", "keys", "music_kits",
     "patches", "skins", "stickers", "stickers_slab", "tools" >>

FILES == SubSeq(AllFiles, 1, NumFiles)

\* DISPLAY_NAMES has an entry for every typename of FILES.
DISPLAY_NAMES ==
  [t \in { AllFiles[k] : k \in 1..Len(AllFiles) } |->
     CASE t = "skins" -> "Skins"
       [] t = "crates" -> "Crates"
       [] t = "collectibles" -> "Collectibles"
       [] t = "keys" -> "Keys"
       [] t = "stickers" -> "Stickers"
       [] t = "keychains" -> "Keychains"
       [] t = "stickers_slab" -> "Sticker Slabs"
       [] t = "agents" -> "Agents"
       [] t = "patches" -> "Patches"
       [] t = "graffiti" -> "Graffiti"
       [] t = "music_kits" -> "Music Kits"
       [] t = "base_weapons" -> "Base Weapons"
       [] t = "collections" -> "Collections"
       [] t = "highlights" -> "Highlights"
       [] t = "tools" -> "Tools"]

\* The budget the script is shipped with (MAX_FILE_SIZE = 80 * 1024).  The
\* chunker reads the budget only through the name MAX_FILE_SIZE, so the
\* model keeps it in a variable that never changes and lets the initial
\* state pick it: small budgets make every packing decision happen on
\* short strings, and the shipped value is among the choices.
ShippedBudget == 80 * 1024

VARIABLES
  MAX_FILE_SIZE,   \* the byte budget the module-level constant holds
  pc,              \* control position inside main / split_json_data
  idx,             \* 1-based position of the for loop of main in FILES
  data,            \* the value download_file returned / split_json_data got
  chunks,          \* local `chunks` of split_json_data
  branch,          \* which branch of split_json_data computed `chunks`
  i,               \* number of chunk files the save loop has written
  chunk_count,     \* return value of split_json_data
  dirs,            \* typenames whose output directory exists
  disk,            \* typename -> contents of 0.json, 1.json, ... in order
  file_counts,     \* the name -> count map of main
  fetched,         \* history: what the Source Provider did for each file
  item_types,      \* entries written to item_types.json
  options_yml,     \* option lines written to options.yml
  calls            \* history: how often each emitter has run

vars == << MAX_FILE_SIZE, pc, idx, data, chunks, branch, i, chunk_count,
           dirs, disk, file_counts, fetched, item_types, options_yml, calls >>

\* ------------------------------------------------------ size estimation
\* Bytes one character takes in json.dumps(..., ensure_ascii=False)
\* followed by .encode('utf-8').
CharBytes(c) ==
  CASE c = "a" -> 1
    [] c = "b" -> 1
    [] c = "e_acute" -> 2
    [] c = "quote" -> 2

RECURSIVE StrBytes(_)
StrBytes(s) == IF s = <<>> THEN 0 ELSE CharBytes(Head(s)) + StrBytes(Tail(s))

\* len(json.dumps(s, ensure_ascii=False).encode('utf-8')) for a string s:
\* the content between two double quotes.
DumpsLen(s) == 2 + StrBytes(s)

\* item_size of the list loop: serialized length + 1 for the comma.
ListItemSize(item) == DumpsLen(item) + 1

\* item_size of the dict loop: length of json.dumps({key: value}), i.e.
\* `{` key `: ` value `}` with the default separators.
PairSize(p) == 1 + DumpsLen(p.key) + 2 + DumpsLen(p.value) + 1

RECURSIVE IndentedBody(_)
IndentedBody(pairs) ==
  IF pairs = <<>> THEN 0
  ELSE (2 + DumpsLen(Head(pairs).key) + 2 + DumpsLen(Head(pairs).value))
       + (IF Len(pairs) > 1 THEN 2 ELSE 0)
       + IndentedBody(Tail(pairs))

\* len(json.dumps(data, ensure_ascii=False, indent=2).encode('utf-8')) for
\* a mapping of strings: `{}` when empty, else `{` newline, one line
\* `  key: value` per pair joined by `,` newline, newline `}`.
IndentedLen(pairs) ==
  IF pairs = <<>> THEN 2 ELSE 2 + IndentedBody(pairs) + 2

\* --------------------------------------------------------- the chunker
InitAcc == [chunks |-> <<>>, current_chunk |-> <<>>, current_size |-> 2]

\* Variant: the oversize test forgets the two bytes of the brackets.
ListOversizeNoOverhead(item_size) == item_size > MAX_FILE_SIZE

\* item_size > MAX_FILE_SIZE - 2 of the list loop.
ListOversize(item_size) == item_size > MAX_FILE_SIZE - 2

\* Variant: the overflow test looks at the accumulator alone.
ListOverflowIgnoresItem(current_size, item_size) ==
  current_size > MAX_FILE_SIZE

\* current_size + item_size > MAX_FILE_SIZE of the list loop.
ListOverflow(current_size, item_size) ==
  current_size + item_size > MAX_FILE_SIZE

\* Variant: a flush on overflow opens an empty chunk, dropping the item.
ListStepDropsOnFlush(acc, item) ==
  LET item_size == ListItemSize(item) IN
  IF ListOversize(item_size)
  THEN IF acc.current_chunk # <<>>
       THEN [chunks |-> Append(Append(acc.chunks, acc.current_chunk), <<item>>),
             current_chunk |-> <<>>,
             current_size |-> 2]
       ELSE [acc EXCEPT !.chunks = Append(acc.chunks, <<item>>)]
  ELSE IF ListOverflow(acc.current_size, item_size)
       THEN [chunks |-> Append(acc.chunks, acc.current_chunk),
             current_chunk |-> <<>>,
             current_size |-> 2]
       ELSE [chunks |-> acc.chunks,
             current_chunk |-> Append(acc.current_chunk, item),
             current_size |-> acc.current_size + item_size]

\* Variant: a flush on overflow keeps accumulating instead of restarting
\* the accumulator at 2 + item_size.
ListStepNoReset(acc, item) ==
  LET item_size == ListItemSize(item) IN
  IF ListOversize(item_size)
  THEN IF acc.current_chunk # <<>>
       THEN [chunks |-> Append(Append(acc.chunks, acc.current_chunk), <<item>>),
             current_chunk |-> <<>>,
             current_size |-> 2]
       ELSE [acc EXCEPT !.chunks = Append(acc.chunks, <<item>>)]
  ELSE IF ListOverflow(acc.current_size, item_size)
       THEN [chunks |-> Append(acc.chunks, acc.current_chunk),
             current_chunk |-> <<item>>,
             current_size |-> acc.current_size + item_size]
       ELSE [chunks |-> acc.chunks,
             current_chunk |-> Append(acc.current_chunk, item),
             current_size |-> acc.current_size + item_size]

\* One iteration of `for item in data`.
ListStep(acc, item) ==
  LET item_size == ListItemSize(item) IN
  IF ListOversize(item_size)
  THEN IF acc.current_chunk # <<>>
       THEN [chunks |-> Append(Append(acc.chunks, acc.current_chunk), <<item>>),
             current_chunk |-> <<>>,
             current_size |-> 2]
       ELSE [acc EXCEPT !.chunks = Append(acc.chunks, <<item>>)]
  ELSE IF ListOverflow(acc.current_size, item_size)
       THEN [chunks |-> Append(acc.chunks, acc.current_chunk),
             current_chunk |-> <<item>>,
             current_size |-> 2 + item_size]
       ELSE [chunks |-> acc.chunks,
             current_chunk |-> Append(acc.current_chunk, item),
             current_size |-> acc.current_size + item_size]

RECURSIVE ListLoop(_, _)
ListLoop(acc, items) ==
  IF items = <<>> THEN acc ELSE ListLoop(ListStep(acc, Head(items)), Tail(items))

\* Variant: the in-progress chunk is flushed even when it is empty.
ListFlushAlways(acc) == Append(acc.chunks, acc.current_chunk)

\* `if current_chunk: chunks.append(current_chunk)` after the list loop.
ListFlush(acc) ==
  IF acc.current_chunk # <<>> THEN Append(acc.chunks, acc.current_chunk)
  ELSE acc.chunks

SplitList(items) == ListFlush(ListLoop(InitAcc, items))

\* item_size > MAX_FILE_SIZE - 2 of the dict loop.
DictOversize(item_size) == item_size > MAX_FILE_SIZE - 2

\* Variant: the overflow test fires one byte early.
DictOverflowEarly(current_size, item_size) ==
  current_size + item_size >= MAX_FILE_SIZE

\* current_size + item_size > MAX_FILE_SIZE of the dict loop.
DictOverflow(current_size, item_size) ==
  current_size + item_size > MAX_FILE_SIZE

\* Variant: an oversized pair is emitted without flushing the in-progress
\* chunk first.
DictStepNoFlush(acc, pair) ==
  LET item_size == PairSize(pair) IN
  IF DictOversize(item_size)
  THEN [acc EXCEPT !.chunks = Append(acc.chunks, <<pair>>)]
  ELSE IF DictOverflow(acc.current_size, item_size)
       THEN [chunks |-> Append(acc.chunks, acc.current_chunk),
             current_chunk |-> <<pair>>,
             current_size |-> 2 + item_size]
       ELSE [chunks |-> acc.chunks,
             current_chunk |-> Append(acc.current_chunk, pair),
             current_size |-> acc.current_size + item_size]

\* One iteration of `for key, value in data.items()`.
DictStep(acc, pair) ==
  LET item_size == PairSize(pair) IN
  IF DictOversize(item_size)
  THEN IF acc.current_chunk # <<>>
       THEN [chunks |-> Append(Append(acc.chunks, acc.current_chunk), <<pair>>),
             current_chunk |-> <<>>,
             current_size |-> 2]
       ELSE [acc EXCEPT !.chunks = Append(acc.chunks, <<pair>>)]
  ELSE IF DictOverflow(acc.current_size, item_size)
       THEN [chunks |-> Append(acc.chunks, acc.current_chunk),
             current_chunk |-> <<pair>>,
             current_size |-> 2 + item_size]
       ELSE [chunks |-> acc.chunks,
             current_chunk |-> Append(acc.current_chunk, pair),
             current_size |-> acc.current_size + item_size]

RECURSIVE DictLoop(_, _)
DictLoop(acc, pairs) ==
  IF pairs = <<>> THEN acc ELSE DictLoop(DictStep(acc, Head(pairs)), Tail(pairs))

\* `if current_chunk: chunks.append(current_chunk)` after the dict loop.
DictFlush(acc) ==
  IF acc.current_chunk # <<>> THEN Append(acc.chunks, acc.current_chunk)
  ELSE acc.chunks

\* Variant: the shortcut needs the indented encoding strictly below budget.
FitsWholeStrict(pairs) == IndentedLen(pairs) < MAX_FILE_SIZE

\* `len(json_str.encode('utf-8')) <= MAX_FILE_SIZE`: keep it as one file.
FitsWhole(pairs) == IndentedLen(pairs) <= MAX_FILE_SIZE

\* The branch of split_json_data that computes `chunks` for d.
BranchOf(d) ==
  IF d.kind = "list" THEN "list"
  ELSE IF d.kind = "dict"
       THEN IF FitsWhole(d.elems) THEN "whole" ELSE "split"
       ELSE "other"

\* The value of `chunks` before the save loop.
ChunksOf(d) ==
  IF d.kind = "list" THEN SplitList(d.elems)
  ELSE IF d.kind = "dict"
       THEN IF FitsWhole(d.elems) THEN << d.elems >>
            ELSE DictFlush(DictLoop(InitAcc, d.elems))
       ELSE << d.elems >>

\* ------------------------------------------------------------ datasets
None == [kind |-> "None", elems |-> <<>>]

\* JSON strings of 2, 3, 6 and 9 serialized bytes.
Items ==
  { <<>>, <<"a">>, <<"e_acute", "quote">>, <<"a", "e_acute", "quote", "a", "a">> }

Keys == { <<"a">>, <<"b">>, <<"e_acute">>, <<"quote">> }

Values == { <<>>, <<"a", "quote">> }

Pairs == [key : Keys, value : Values]

SeqsUpTo(S, n) == UNION { [1..m -> S] : m \in 0..n }

DistinctKeys(pairs) ==
  \A m, n \in 1..Len(pairs) : m # n => pairs[m].key # pairs[n].key

\* A string of 27 content bytes (29 serialized, packing size 30); k tells
\* the four items of the scenario apart.
Item30(k) == [j \in 1..(27 - k) |-> IF j <= k THEN "e_acute" ELSE "a"]

Scenario30 == [kind |-> "list", elems |-> << Item30(0), Item30(1), Item30(2), Item30(3) >>]

ListDatasets ==
  { [kind |-> "list", elems |-> s] : s \in SeqsUpTo(Items, MaxLen) }
    \cup { Scenario30 }

DictDatasets ==
  { [kind |-> "dict", elems |-> s] :
      s \in { q \in SeqsUpTo(Pairs, MaxLen) : DistinctKeys(q) } }

ScalarDatasets == { [kind |-> "scalar", elems |-> << v >>] : v \in Items }

Budgets == (1..MaxBudget) \cup { 65, ShippedBudget }

\* What the remote endpoint may hold for a file during a run of main.
Remote ==
  << [kind |-> "list", elems |-> <<>>],
     [kind |-> "list", elems |-> << <<"a">>, <<"e_acute", "quote">> >>],
     [kind |-> "dict", elems |-> <<>>],
     [kind |-> "dict", elems |-> << [key |-> <<"a">>, value |-> <<>>],
                                    [key |-> <<"b">>, value |-> <<"a", "quote">>] >>],
     [kind |-> "scalar", elems |-> << <<"a">> >>] >>

RunBudgets == { 1, 9, 24, ShippedBudget }

\* ------------------------------------------------------------ emitters
typename == FILES[idx]

RECURSIVE SortedItems(_, _)
\* sorted(file_counts.items()) restricted to names, as (typename, count).
SortedItems(fc, names) ==
  IF names = <<>> THEN <<>>
  ELSE (IF Head(names) \in DOMAIN fc
        THEN << << Head(names), fc[Head(names)] >> >> ELSE <<>>)
       \o SortedItems(fc, Tail(names))

RECURSIVE ItemTypesEntries(_)
\* The list generate_item_types_json dumps: {display_name: "typename|count"}.
ItemTypesEntries(items) ==
  IF items = <<>> THEN <<>>
  ELSE (IF Head(items)[1] \in DOMAIN DISPLAY_NAMES
        THEN << [name |-> DISPLAY_NAMES[Head(items)[1]],
                 typename |-> Head(items)[1],
                 count |-> Head(items)[2]] >>
        ELSE <<>>)
       \o ItemTypesEntries(Tail(items))

RECURSIVE OptionLines(_)
\* The option lines generate_options_yml appends:
\* - "display_name": typename|{max_index+1} with max_index = count - 1.
OptionLines(items) ==
  IF items = <<>> THEN <<>>
  ELSE (IF Head(items)[1] \in DOMAIN DISPLAY_NAMES
        THEN << [name |-> DISPLAY_NAMES[Head(items)[1]],
                 typename |-> Head(items)[1],
                 count |-> (Head(items)[2] - 1) + 1] >>
        ELSE <<>>)
       \o OptionLines(Tail(items))

\* --------------------------------------------------------------- state
EmptyMap == [t \in {} |-> 0]

Pending == [k \in 1..NumFiles |-> [status |-> "pending", value |-> None]]

InitCommon ==
  /\ chunks = <<>>
  /\ branch = "none"
  /\ i = 0
  /\ chunk_count = 0
  /\ dirs = {}
  /\ disk = [t \in { FILES[k] : k \in 1..NumFiles } |-> <<>>]
  /\ file_counts = EmptyMap
  /\ fetched = Pending
  /\ item_types = <<>>
  /\ options_yml = <<>>
  /\ calls = [item_types |-> 0, options_yml |-> 0]

\* main() is entered.
Init ==
  /\ MAX_FILE_SIZE \in RunBudgets
  /\ pc = "fetch"
  /\ idx = 1
  /\ data = None
  /\ InitCommon

\* split_json_data(data, typename, output_dir) is entered directly with a
\* dataset and a budget drawn from the bounded input sets.
ChunkInit ==
  /\ MAX_FILE_SIZE \in Budgets
  /\ pc = "split"
  /\ idx = 1
  /\ \/ data \in ListDatasets
     \/ data \in DictDatasets
     \/ data \in ScalarDatasets
  /\ InitCommon

\* ----------------------------------------------------- split_json_data
\* Lines 93-162: compute `chunks`, create the output directory.
Split ==
  /\ pc = "split"
  /\ chunks' = ChunksOf(data)
  /\ branch' = BranchOf(data)
  /\ dirs' = dirs \cup { typename }
  /\ i' = 0
  /\ pc' = "write"
  /\ UNCHANGED << MAX_FILE_SIZE, idx, data, chunk_count, disk, file_counts,
                  fetched, item_types, options_yml, calls >>

\* Variant: every chunk is written to the same file name.
WriteFileSameName(dir, n, content) == << content >>

\* open(output_dir / f"{n}.json", 'w') and json.dump(content): file n is
\* created, or truncated and rewritten when it exists.
WriteFile(dir, n, content) ==
  IF n < Len(dir) THEN [dir EXCEPT ![n + 1] = content]
  ELSE Append(dir, content)

\* One iteration of `for i, chunk in enumerate(chunks)`.
WriteChunk ==
  /\ pc = "write"
  /\ i < Len(chunks)
  /\ disk' = [disk EXCEPT ![typename] = WriteFile(disk[typename], i, chunks[i + 1])]
  /\ i' = i + 1
  /\ UNCHANGED << MAX_FILE_SIZE, pc, idx, data, chunks, branch, chunk_count,
                  dirs, file_counts, fetched, item_types, options_yml, calls >>

\* `return len(chunks)` once the save loop is exhausted.
SplitReturn ==
  /\ pc = "write"
  /\ i = Len(chunks)
  /\ chunk_count' = Len(chunks)
  /\ pc' = "record"
  /\ UNCHANGED << MAX_FILE_SIZE, idx, data, chunks, branch, i, dirs, disk,
                  file_counts, fetched, item_types, options_yml, calls >>

\* ---------------------------------------------------------------- main
Fetching == pc = "fetch" /\ idx <= NumFiles

\* download_file returns the parsed value; it is not None, so main goes on
\* to split_json_data.
DownloadValue ==
  /\ Fetching
  /\ \E n \in 1..Len(Remote) :
       /\ data' = Remote[n]
       /\ fetched' = [fetched EXCEPT ![idx] = [status |-> "value", value |-> Remote[n]]]
  /\ pc' = "split"
  /\ UNCHANGED << MAX_FILE_SIZE, idx, chunks, branch, i, chunk_count, dirs,
                  disk, file_counts, item_types, options_yml, calls >>

\* The body is the JSON value null: json.loads returns None, which main
\* takes for a failed download and skips.
DownloadNull ==
  /\ Fetching
  /\ data' = None
  /\ fetched' = [fetched EXCEPT ![idx] = [status |-> "null", value |-> None]]
  /\ idx' = idx + 1
  /\ UNCHANGED << MAX_FILE_SIZE, pc, chunks, branch, i, chunk_count, dirs,
                  disk, file_counts, item_types, options_yml, calls >>

\* urlopen raises URLError: caught, None returned, main skips the dataset.
DownloadURLError ==
  /\ Fetching
  /\ data' = None
  /\ fetched' = [fetched EXCEPT ![idx] = [status |-> "URLError", value |-> None]]
  /\ idx' = idx + 1
  /\ UNCHANGED << MAX_FILE_SIZE, pc, chunks, branch, i, chunk_count, dirs,
                  disk, file_counts, item_types, options_yml, calls >>

\* response.read(), decode or json.loads raises something that is not a
\* URLError (a dropped connection while reading, a body that is not UTF-8
\* or not JSON): nothing catches it and main ends with the exception.
DownloadRaises ==
  /\ Fetching
  /\ fetched' = [fetched EXCEPT ![idx] = [status |-> "raised", value |-> None]]
  /\ pc' = "aborted"
  /\ UNCHANGED << MAX_FILE_SIZE, idx, data, chunks, branch, i, chunk_count,
                  dirs, disk, file_counts, item_types, options_yml, calls >>

\* file_counts[typename] = chunk_count, then the next loop iteration.
Record ==
  /\ pc = "record"
  /\ file_counts' = [t \in DOMAIN file_counts \cup { typename } |->
                       IF t = typename THEN chunk_count ELSE file_counts[t]]
  /\ idx' = idx + 1
  /\ pc' = "fetch"
  /\ UNCHANGED << MAX_FILE_SIZE, data, chunks, branch, i, chunk_count, dirs,
                  disk, fetched, item_types, options_yml, calls >>

\* generate_item_types_json(file_counts, item_types_path) after the loop.
GenerateItemTypes ==
  /\ pc = "fetch"
  /\ idx > NumFiles
  /\ item_types' = ItemTypesEntries(SortedItems(file_counts, AllFiles))
  /\ calls' = [calls EXCEPT !.item_types = @ + 1]
  /\ pc' = "options"
  /\ UNCHANGED << MAX_FILE_SIZE, idx, data, chunks, branch, i, chunk_count,
                  dirs, disk, file_counts, fetched, options_yml >>

\* generate_options_yml(file_counts, options_path), then main returns.
GenerateOptionsYml ==
  /\ pc = "options"
  /\ options_yml' = OptionLines(SortedItems(file_counts, AllFiles))
  /\ calls' = [calls EXCEPT !.options_yml = @ + 1]
  /\ pc' = "done"
  /\ UNCHANGED << MAX_FILE_SIZE, idx, data, chunks, branch, i, chunk_count,
                  dirs, disk, file_counts, fetched, item_types >>

SplitNext == Split \/ WriteChunk \/ SplitReturn

Next ==
  \/ DownloadValue
  \/ DownloadNull
  \/ DownloadURLError
  \/ DownloadRaises
  \/ Split
  \/ WriteChunk
  \/ SplitReturn
  \/ Record
  \/ GenerateItemTypes
  \/ GenerateOptionsYml

\* A run of main.
Spec == Init /\ [][Next]_vars

\* One call of split_json_data on every bounded dataset and budget.
ChunkSpec == ChunkInit /\ [][SplitNext]_vars

\* ----------------------------------------------- vocabulary of the claims
\* `chunks` holds the ChunkSet of `data`.
Computed == pc \in {"write", "record"}

IsList == data.kind = "list"
IsDict == data.kind = "dict"

\* The packing loop produced the ChunkSet.
Packed == IsList \/ (IsDict /\ branch = "split")

RECURSIVE Flatten(_)
Flatten(cs) == IF cs = <<>> THEN <<>> ELSE Head(cs) \o Flatten(Tail(cs))

\* The per-element size the packing loop of the dataset in hand uses.
ElemSize(e) == IF IsList THEN ListItemSize(e) ELSE PairSize(e)

\* The element's own serialized size: the compact encoding of the list
\* item, or of the one-pair mapping.
OwnSize(e) == IF IsList THEN DumpsLen(e) ELSE PairSize(e)

RECURSIVE SumSizes(_)
SumSizes(c) == IF c = <<>> THEN 0 ELSE ElemSize(Head(c)) + SumSizes(Tail(c))

\* Estimated content size of a chunk.
EstSize(c) == 2 + SumSizes(c)

Oversized(e) == ElemSize(e) > MAX_FILE_SIZE - 2

Standalone(c) == Len(c) = 1 /\ Oversized(c[1])

\* ------------------------------------------------------------------ C1
\* C1: concatenating the chunks of a list or mapping dataset in ChunkSet
\* order gives back the dataset: same elements, same order, same key/value
\* pairs, every element in exactly one chunk, every chunk a contiguous run.
C1_Lossless ==
  (Computed /\ (IsList \/ IsDict)) => Flatten(chunks) = data.elems

C1_Witness ==
  /\ Computed /\ IsDict /\ branch = "split"
  /\ Len(data.elems) = 3
  /\ Len(chunks) = 2
  /\ Len(chunks[1]) = 2

\* ------------------------------------------------------------------ C2
\* C2: every chunk of a list or mapping dataset, other than a chunk that
\* holds exactly one oversized element, has estimated content size (2 plus
\* the packing sizes of its elements) at most the budget.
C2_BudgetAdherence ==
  (Computed /\ (IsList \/ IsDict)) =>
    \A j \in 1..Len(chunks) :
      ~Standalone(chunks[j]) => EstSize(chunks[j]) <= MAX_FILE_SIZE

C2_Witness ==
  /\ Computed /\ IsList
  /\ \E j \in 1..Len(chunks) :
       /\ Len(chunks[j]) >= 2
       /\ EstSize(chunks[j]) = MAX_FILE_SIZE
  /\ \E j \in 1..Len(chunks) : Standalone(chunks[j])

\* ------------------------------------------------------------------ C3
\* C3: on the packing path an element whose own serialized size exceeds
\* budget - 3 is alone in its chunk, wherever it sits; the elements before
\* it are all in earlier chunks and the elements after it in later ones.
C3_OversizeIsolation ==
  (Computed /\ Packed) =>
    \A p \in 1..Len(data.elems) :
      OwnSize(data.elems[p]) > MAX_FILE_SIZE - 3 =>
        \E j \in 1..Len(chunks) :
          /\ chunks[j] = << data.elems[p] >>
          /\ Flatten(SubSeq(chunks, 1, j - 1)) = SubSeq(data.elems, 1, p - 1)
          /\ Flatten(SubSeq(chunks, j + 1, Len(chunks)))
               = SubSeq(data.elems, p + 1, Len(data.elems))

C3_Witness ==
  /\ Computed /\ IsList
  /\ Len(data.elems) = 3
  /\ OwnSize(data.elems[2]) > MAX_FILE_SIZE - 3
  /\ OwnSize(data.elems[1]) <= MAX_FILE_SIZE - 3
  /\ OwnSize(data.elems[3]) <= MAX_FILE_SIZE - 3
  /\ Len(chunks) = 3

\* ------------------------------------------------------------------ C4
InScenario == Computed /\ data = Scenario30 /\ MAX_FILE_SIZE = 65

\* C4 as stated: four items of packing size 30 under budget 65 give the
\* three chunks [[item0,item1],[item2],[item3]].
C4_AsStated ==
  InScenario =>
    chunks = << << Item30(0), Item30(1) >>, << Item30(2) >>, << Item30(3) >> >>

\* C4 amended: four items of packing size 30 under budget 65 give the two
\* chunks [[item0,item1],[item2,item3]].
C4_SimpleSplit ==
  InScenario =>
    chunks = << << Item30(0), Item30(1) >>, << Item30(2), Item30(3) >> >>

C4_Witness ==
  /\ InScenario
  /\ \A p \in 1..4 : ListItemSize(data.elems[p]) = 30
  /\ Cardinality({ data.elems[p] : p \in 1..4 }) = 4

\* ------------------------------------------------------------------ C5
\* C5 as stated: no chunk of a list or mapping dataset has zero elements.
C5_AsStated ==
  (Computed /\ (IsList \/ IsDict)) =>
    \A j \in 1..Len(chunks) : Len(chunks[j]) >= 1

\* C5 amended: a chunk of a list or mapping dataset has zero elements only
\* when it is the single chunk the whole-mapping shortcut makes of the
\* empty mapping; every chunk the packing loops emit is non-empty.
C5_NonEmptyChunks ==
  (Computed /\ (IsList \/ IsDict)) =>
    \A j \in 1..Len(chunks) :
      Len(chunks[j]) = 0 => (branch = "whole" /\ data.elems = <<>>)

C5_Witness ==
  /\ Computed /\ IsList
  /\ Len(data.elems) = 3
  /\ Oversized(data.elems[1])
  /\ ~Oversized(data.elems[2])
  /\ EstSize(<< data.elems[2], data.elems[3] >>) > MAX_FILE_SIZE
  /\ Len(chunks) = 3

\* ------------------------------------------------------------------ C6
\* C6: a mapping whose indented encoding is at most the budget yields the
\* one chunk equal to the mapping, by the shortcut; the per-pair packing
\* loop runs only when the indented encoding is strictly longer.
C6_WholeMapping ==
  (Computed /\ IsDict) =>
    /\ IndentedLen(data.elems) <= MAX_FILE_SIZE =>
         (branch = "whole" /\ chunks = << data.elems >>)
    /\ branch = "split" => IndentedLen(data.elems) > MAX_FILE_SIZE

C6_Witness ==
  /\ Computed /\ IsDict
  /\ Len(data.elems) = 2
  /\ IndentedLen(data.elems) = MAX_FILE_SIZE
  /\ branch = "whole"

\* ------------------------------------------------------------------ C7
EmptyList == [kind |-> "list", elems |-> <<>>]

\* C7: the empty list yields zero chunks; split_json_data then writes no
\* chunk file and returns 0.
C7_EmptySequence ==
  (Computed /\ data = EmptyList) =>
    /\ chunks = <<>>
    /\ disk[typename] = <<>>
    /\ pc = "record" => chunk_count = 0

C7_Witness ==
  /\ pc = "record"
  /\ data = EmptyList
  /\ typename \in dirs

\* ----------------------------------------------------------------- C10
\* C10: on the packing path a boundary between consecutive chunks is
\* forced: one of the two chunks is a standalone oversized element, or the
\* earlier chunk plus the first element of the later one exceeds the budget.
C10_GreedyMaximal ==
  (Computed /\ Packed) =>
    \A j \in 1..(Len(chunks) - 1) :
      \/ Standalone(chunks[j])
      \/ Standalone(chunks[j + 1])
      \/ EstSize(chunks[j]) + ElemSize(chunks[j + 1][1]) > MAX_FILE_SIZE

C10_Witness ==
  /\ Computed /\ IsList
  /\ Len(chunks) = 2
  /\ Len(chunks[1]) = 2
  /\ ~Standalone(chunks[2])
  /\ EstSize(chunks[1]) < MAX_FILE_SIZE
  /\ EstSize(chunks[1]) + ElemSize(chunks[2][1]) = MAX_FILE_SIZE + 1

\* ------------------------------------------------------------------ C8
\* The loop of main is over: file_counts is the final name -> count map.
LoopOver == idx > NumFiles

\* The Source Provider handed over a JSON value for file k.
Supplied(k) == fetched[k].status \in {"value", "null"}

\* The Source Provider failed to hand over a value for file k.
Failed(k) == fetched[k].status \in {"URLError", "raised"}

\* Number of chunks of the ChunkSet of a supplied value; null is a scalar,
\* whose ChunkSet is the one chunk holding it.
ChunkSetSize(v) == IF v.kind = "None" THEN 1 ELSE Len(ChunksOf(v))

\* C8: a dataset is absent from the final name -> count map exactly when
\* the Source Provider failed to supply it; a failure writes no chunk file
\* for the dataset and never stops the run; a supplied dataset is recorded
\* with the number of chunks of its ChunkSet.
C8_SkipOnUnavailable ==
  /\ pc # "aborted"
  /\ LoopOver =>
       \A k \in 1..NumFiles :
         /\ (FILES[k] \notin DOMAIN file_counts) <=> Failed(k)
         /\ Failed(k) => disk[FILES[k]] = <<>>
         /\ Supplied(k) =>
              /\ FILES[k] \in DOMAIN file_counts
              /\ file_counts[FILES[k]] = ChunkSetSize(fetched[k].value)

\* ------------------------------------------------------------------ C9
\* File k was handed to split_json_data.
Processed(k) == fetched[k].status = "value"

Settled(k) == fetched[k].status # "pending"

Recorded(entries) == { << e.typename, e.count >> : e \in { entries[n] : n \in 1..Len(entries) } }

C9_State ==
  /\ idx \in 1..(NumFiles + 1)
  \* datasets after the current one are untouched
  /\ \A k \in 1..NumFiles :
       k > idx => /\ ~Settled(k)
                  /\ disk[FILES[k]] = <<>>
                  /\ FILES[k] \notin DOMAIN file_counts
  \* datasets before the current one are finished: skipped, or all files
  \* written in ChunkSet order and the count recorded
  /\ \A k \in 1..NumFiles :
       k < idx =>
         /\ Settled(k)
         /\ Processed(k) =>
              /\ disk[FILES[k]] = ChunksOf(fetched[k].value)
              /\ FILES[k] \in DOMAIN file_counts
              /\ file_counts[FILES[k]] = Len(disk[FILES[k]])
         /\ ~Processed(k) =>
              /\ disk[FILES[k]] = <<>>
              /\ FILES[k] \notin DOMAIN file_counts
  \* the save loop has written files 0 .. i-1, in ChunkSet order
  /\ pc = "write" => disk[typename] = SubSeq(chunks, 1, i)
  /\ pc = "record" =>
       /\ disk[typename] = chunks
       /\ chunk_count = Len(chunks)
       /\ typename \notin DOMAIN file_counts
  \* the emitters run at most once, and only once the loop is over
  /\ calls.item_types <= 1
  /\ calls.options_yml <= calls.item_types
  /\ calls.item_types = 1 =>
       /\ LoopOver
       /\ Recorded(item_types) = { << t, file_counts[t] >> : t \in DOMAIN file_counts }
       /\ Len(item_types) = Cardinality(DOMAIN file_counts)
  /\ calls.options_yml = 1 => options_yml = item_types
  /\ pc = "done" => (calls.item_types = 1 /\ calls.options_yml = 1)

C9_Step ==
  /\ idx' \in {idx, idx + 1}
  /\ \A k \in 1..NumFiles : fetched'[k] # fetched[k] => (k = idx /\ pc = "fetch")
  /\ \A k \in 1..NumFiles : disk'[FILES[k]] # disk[FILES[k]] => k = idx
  /\ calls.item_types = 1 => UNCHANGED << file_counts, disk, fetched, item_types >>

====
